---- MODULE Spec2Model ----
(***************************************************************************)
(* Ferrox: the tool-calling conversation loop of TextAgent, the typed      *)
(* action builder, and the Telegram front end with its confirmation store. *)
(*                                                                         *)
(* Texts are sequences of one-character strings, so that serialisation     *)
(* (serde_json::to_string) is something that changes a text.  An           *)
(* Option<T> is a sequence of length 0 (None) or 1 (Some).                 *)
(***************************************************************************)
EXTENDS Naturals, Sequences, FiniteSets, TLC

(***************************************************************************)
(* Bounds of the model                                                     *)
(***************************************************************************)
\* longest tool-call batch the completion endpoint returns
MaxBatch == 2
\* SpecLoop: tool calls the completion endpoint issues in one run
LoopCalls == 6
\* SpecLoop: tool calls other than the plain echo call among them
LoopSpecial == 1
\* Spec: tool calls the completion endpoint issues in one run
FrontCalls == 1
\* tool calls the endpoint issues over two concurrent turns without front end
SharedCalls == 2
\* description(..) and parameter(..) calls between new(..) and build()
MaxBuilderCalls == 3
\* definition() calls made on a built action
MaxDefinitionCalls == 2
\* Spec: number of confirmation events (button presses) delivered in one run
MaxClicks == 2
\* the longest parameter list of a definition that is translated
MaxParameters == 2
\* the most actions registered with one agent, and the tool calls of its turn
MaxActions == 2
RegisterCalls == 2

(***************************************************************************)
(* Program constants                                                       *)
(***************************************************************************)
\* `while count <= 5`
LoopCap == 5
\* `if count == 5 { return Err(..within 5 rounds) }`
ErrCount == 5

None == <<>>
Some(x) == <<x>>

(***************************************************************************)
(* Texts                                                                   *)
(***************************************************************************)
EmptyText == <<>>
TxtHi == <<"h", "i">>
TxtQuote == <<"a", "\"">>
TxtBoom == <<"b", "o", "o", "m">>
TxtFinal == <<"d", "o", "n", "e">>
TxtSystem == <<"s", "y", "s">>

\* serde_json's string escaping: a quote or a backslash gets a backslash
RECURSIVE EscapeJson(_)
EscapeJson(s) ==
    IF s = <<>> THEN <<>>
    ELSE (IF Head(s) \in {"\"", "\\"} THEN <<"\\", Head(s)>> ELSE <<Head(s)>>)
         \o EscapeJson(Tail(s))

\* serde_json::to_string(&result) for a result of type String
ToJsonString(s) == <<"\"">> \o EscapeJson(s) \o <<"\"">>

(***************************************************************************)
(* Results: Ok(text) / Err(message parts)                                  *)
(***************************************************************************)
Ok(v) == [ok |-> TRUE, val |-> v]
Err(e) == [ok |-> FALSE, val |-> e]

ErrInvalidParameters == <<"Invalid parameters: ", "missing field">>
ErrHandler == <<"Invalid operation">>
ErrJson == <<"expected value">>
ErrTransport == <<"transport">>
ErrRoundLimit == <<"Failed to get a final response from the AI agent within 5 rounds">>

(***************************************************************************)
(* JSON payloads.  A JSON object is a function from its field names to     *)
(* texts; the argument strings of tool calls are the four below.           *)
(***************************************************************************)
FieldNames == {"text", "amount", "wrong_field"}

ArgHi == "{\"text\":\"hi\"}"
ArgBoom == "{\"text\":\"boom\"}"
ArgAmount == "{\"amount\":\"5\"}"
ArgGarbage == "not json"

\* serde_json::from_str(&tool_call.function.arguments): does the string parse
JsonParses(s) == s \in {ArgHi, ArgBoom, ArgAmount}

\* serde_json::from_str(&tool_call.function.arguments): the parsed value
JsonValue(s) ==
    CASE s = ArgHi -> ("text" :> TxtHi)
      [] s = ArgBoom -> ("text" :> TxtBoom)
      [] s = ArgAmount -> ("amount" :> <<"5">>)

(***************************************************************************)
(* Actions: ActionParameter, ActionDefinition, ActionBuilder               *)
(***************************************************************************)
ActionParameter(n, d, t, r) ==
    [name |-> n, description |-> d, param_type |-> t, required |-> r]

\* ActionBuilder::new: empty description, no parameters
BuilderNew(n, h, ptype, vtype, ch) ==
    [name |-> n, description |-> "", parameters |-> <<>>, handler |-> h,
     ptype |-> ptype, vtype |-> vtype, confirm_handler |-> ch]

BuilderDescription(b, d) == [b EXCEPT !.description = d]

\* a builder that puts a new parameter in front of the declared ones
BuilderParameterFront(b, n, d, t, r) ==
    [b EXCEPT !.parameters = <<ActionParameter(n, d, t, r)>> \o @]

BuilderParameter(b, n, d, t, r) ==
    [b EXCEPT !.parameters = Append(@, ActionParameter(n, d, t, r))]

\* ActionBuilder::build: the definition is frozen from the builder's fields
Build(b) ==
    [definition |-> [name |-> b.name, description |-> b.description,
                     parameters |-> b.parameters],
     handler |-> b.handler, ptype |-> b.ptype, vtype |-> b.vtype,
     confirm_handler |-> b.confirm_handler]

\* FunctionAction::definition
Definition(a) == a.definition

\* The fields a handler's parameter struct cannot be deserialised without
\* (fields that are neither Option nor #[serde(default)])
StructRequired(ptype) ==
    CASE ptype = "EchoParams" -> {"text"}
      [] ptype = "TransferParams" -> {"amount"}
      [] ptype = "EmptyParams" -> {}

\* serde_json::from_value::<P>(params): unknown fields are ignored, a
\* missing non-optional field is an error
FromValueOk(ptype, params) == StructRequired(ptype) \subseteq DOMAIN params

\* serde_json::from_value::<V>(send_state)
SendStateOk(vtype, send_state) ==
    \/ vtype = "String" /\ send_state = "string"
    \/ vtype = "Unit" /\ send_state = "null"

\* The application's handler functions: echo returns its text and counts the
\* call in the shared state, failing (before counting) on the text "boom";
\* the preview of transfer returns the amount and leaves the state alone.
HandlerRun(h, params, st) ==
    CASE h = "echo" ->
           IF params["text"] = TxtBoom
           THEN [res |-> Err(ErrHandler), st |-> st]
           ELSE [res |-> Ok(params["text"]), st |-> st + 1]
      [] h = "preview_transfer" ->
           [res |-> Ok(params["amount"]), st |-> st]

\* an execute whose observable effect on the shared state precedes the
\* deserialisation of its parameters
ExecuteCountFirst(a, params, st) ==
    IF ~FromValueOk(a.ptype, params)
    THEN [res |-> Err(ErrInvalidParameters), st |-> st + 1, invoked |-> TRUE]
    ELSE LET r == HandlerRun(a.handler, params, st)
         IN  [res |-> r.res, st |-> r.st, invoked |-> TRUE]

\* an execute whose handler works on a copy of the shared state
ExecuteOnCopy(a, params, st) ==
    IF ~FromValueOk(a.ptype, params)
    THEN [res |-> Err(ErrInvalidParameters), st |-> st, invoked |-> FALSE]
    ELSE LET r == HandlerRun(a.handler, params, st)
         IN  [res |-> r.res, st |-> st, invoked |-> TRUE]

\* FunctionAction::execute of crates/ferrox (params, state): the handler's
\* result is returned as it is
Execute(a, params, st) ==
    IF ~FromValueOk(a.ptype, params)
    THEN [res |-> Err(ErrInvalidParameters), st |-> st, invoked |-> FALSE]
    ELSE LET r == HandlerRun(a.handler, params, st)
         IN  [res |-> r.res, st |-> r.st, invoked |-> TRUE]

\* FunctionAction::execute of crates/ferrox-actions (params, send_state,
\* state): the handler's success value goes through serde_json::to_string
ExecuteWithSendState(a, params, send_state, st) ==
    IF ~FromValueOk(a.ptype, params)
    THEN [res |-> Err(ErrInvalidParameters), st |-> st, invoked |-> FALSE]
    ELSE IF ~SendStateOk(a.vtype, send_state)
    THEN [res |-> Err(<<"Invalid send_state: ", "invalid type">>), st |-> st,
          invoked |-> FALSE]
    ELSE LET r == HandlerRun(a.handler, params, st)
         IN  [res |-> IF r.res.ok THEN Ok(ToJsonString(r.res.val)) ELSE r.res,
              st |-> r.st, invoked |-> TRUE]

EchoAction ==
    Build(BuilderParameter(
            BuilderDescription(
              BuilderNew("echo", "echo", "EchoParams", "String", None),
              "Echo the text"),
            "text", "Text to echo", "string", TRUE))

TransferAction ==
    Build(BuilderParameter(
            BuilderDescription(
              BuilderNew("transfer", "preview_transfer", "TransferParams",
                         "Unit", Some("confirm_transfer")),
              "Preview a transfer"),
            "amount", "Amount to send", "string", TRUE))

(***************************************************************************)
(* Messages and tool calls                                                 *)
(***************************************************************************)
Message(role, content, tool_calls, tool_call_id) ==
    [role |-> role, content |-> content, tool_calls |-> tool_calls,
     tool_call_id |-> tool_call_id]

SystemMessage(t) == Message("system", Some(t), None, None)
UserMessage(t) == Message("user", Some(t), None, None)
AssistantText(t) == Message("assistant", Some(t), None, None)
AssistantToolCalls(batch) == Message("assistant", None, Some(batch), None)
\* a tool message that does not carry the id of the call it answers
ToolResultUntagged(id, t) == Message("tool", Some(t), None, None)

ToolResult(id, t) == Message("tool", Some(t), None, Some(id))

ToolCall(id, name, arguments) ==
    [id |-> id, function |-> [name |-> name, arguments |-> arguments]]

IsToolCalls(msg) == msg.role = "assistant" /\ msg.tool_calls # None
IsAssistant(msg) == msg.role = "assistant"

(***************************************************************************)
(* The environment: history ids, prompts, what the endpoint answers        *)
(***************************************************************************)
Turns == {"m1", "m2"}
HistoryIds == {"conv1", "conv2"}
PromptOf(m) == IF m = "m1" THEN <<"p", "1">> ELSE <<"p", "2">>

\* final answers of the endpoint
Finals == {TxtFinal}

CallIds == <<"call_a", "call_b", "call_c", "call_d">>

\* name and argument string of the tool calls the endpoint issues
PlainCall == <<"echo", ArgHi>>
SpecialCalls ==
    { <<"echo", ArgBoom>>, <<"echo", ArgGarbage>>,
      <<"transfer", ArgAmount>>, <<"nosuch", ArgGarbage>> }
CallTemplates == {PlainCall} \cup SpecialCalls

MkBatch(ts) ==
    [i \in 1..Len(ts) |-> ToolCall(CallIds[i], ts[i][1], ts[i][2])]

NumSpecial(ts) == Cardinality({i \in 1..Len(ts) : ts[i] \in SpecialCalls})

\* the batches the endpoint can still return with `calls` tool calls and
\* `special` calls other than the plain one left
Batches(calls, special) ==
    { MkBatch(ts) : ts \in
        { x \in UNION { [1..n -> CallTemplates] : n \in 1..MaxBatch } :
            Len(x) <= calls /\ NumSpecial(x) <= special } }

(***************************************************************************)
(* State                                                                   *)
(***************************************************************************)
VARIABLES
    conversation_history, \* TextAgent.conversation_history: id -> messages (<<>>: no entry)
    actions,              \* TextAgent.actions: the registered actions, in order
    state,                \* AgentState<S>: the counter of the shared state
    callback_data,        \* Ferrox.callback_data: token -> Option<(value, handler)>
    callback_lock,        \* the event holding the callback_data mutex, 0 when free
    turn,                 \* per message: the locals of message_handler and send_prompt
    cb,                   \* per confirmation event: the locals of callback_handler
    visible,              \* tokens whose Confirm button the chat shows
    confirm_runs,         \* token -> number of times its confirm handler ran
    env,                  \* what the endpoint may still issue in this run
    xin, xout             \* input and output of a stand-alone execute call

vars == <<conversation_history, actions, state, callback_data, callback_lock,
          turn, cb, visible, confirm_runs, env, xin, xout>>

Clicks == 1..MaxClicks

IdleTurn ==
    [pc |-> "idle", history_id |-> "", prompt |-> EmptyText,
     conversation |-> <<>>, count |-> 0, final_result |-> EmptyText,
     tool_calls |-> <<>>, idx |-> 0, result |-> None,
     confirm_handler |-> None, base |-> <<>>, sent |-> None, requests |-> 0,
     log |-> <<>>, locks |-> {}, prompt_args |-> <<>>, tools |-> <<>>]

IdleClick == [pc |-> "idle", data |-> "", entry |-> None, result |-> None]

NoInput == [kind |-> "none"]

\* the stored history after an earlier turn without tool calls
PriorHistory ==
    <<SystemMessage(TxtSystem), UserMessage(<<"p", "0">>), AssistantText(TxtFinal)>>

InitAgent ==
    /\ actions = <<EchoAction, TransferAction>>
    /\ callback_data = [t \in Turns |-> None]
    /\ callback_lock = 0
    /\ turn = [m \in Turns |-> IdleTurn]
    /\ cb = [c \in Clicks |-> IdleClick]
    /\ visible = {}
    /\ confirm_runs = [t \in Turns |-> 0]

\* no stand-alone execute call is made
InitNoExecute ==
    /\ state = 0
    /\ xin = NoInput
    /\ xout = None

\* the front end: two messages handled concurrently, short loops
Init ==
    /\ InitAgent
    /\ InitNoExecute
    /\ conversation_history = [h \in HistoryIds |-> <<>>]
    /\ env = [calls |-> FrontCalls, special |-> FrontCalls, turns |-> 2,
              parallel |-> 2, ids |-> HistoryIds]

\* one turn with a deep tool-calling loop, on a new or an existing history
InitLoop ==
    /\ InitAgent
    /\ InitNoExecute
    /\ conversation_history \in
         {[h \in HistoryIds |-> <<>>],
          [h \in HistoryIds |-> IF h = "conv1" THEN PriorHistory ELSE <<>>]}
    /\ env = [calls |-> LoopCalls, special |-> LoopSpecial, turns |-> 1,
              parallel |-> 1, ids |-> {"conv1"}]

\* two turns that may run concurrently, on the same or on different ids
InitShared ==
    /\ InitAgent
    /\ InitNoExecute
    /\ conversation_history = [h \in HistoryIds |-> <<>>]
    /\ env = [calls |-> SharedCalls, special |-> 1, turns |-> 2,
              parallel |-> 2, ids |-> HistoryIds]

\* one turn on a new history, at most one call per turn that is not plain
InitLoopFair ==
    /\ InitAgent
    /\ InitNoExecute
    /\ conversation_history = [h \in HistoryIds |-> <<>>]
    /\ env = [calls |-> LoopCalls, special |-> 1, turns |-> 1,
              parallel |-> 1, ids |-> {"conv1"}]

(***************************************************************************)
(* TextAgent::send_prompt                                                  *)
(***************************************************************************)
\* a loop without a cap
LoopForever(count) == TRUE

\* `while count <= 5`
LoopContinues(count) == count <= LoopCap

\* `if count == 5 { return Err(...) }`
RoundLimitHit(count) == count = ErrCount

\* a turn that always starts from a fresh system seed
GetOrCreateFresh(map, id) == <<SystemMessage(TxtSystem)>>

\* the history a turn starts from: the stored one, or a fresh system seed
GetOrCreate(map, id) ==
    IF map[id] # <<>> THEN map[id] ELSE <<SystemMessage(TxtSystem)>>

\* the prompt argument of send_prompt_with_tools
PromptArgAlways(count, prompt) == Some(prompt)

PromptArg(count, prompt) == IF count = 0 THEN Some(prompt) ELSE None

\* Client::send_prompt_with_tools: the messages of the request
RequestMessages(prompt, history) ==
    IF prompt # None THEN Append(history, UserMessage(prompt[1])) ELSE history

\* a lookup that falls back to the first registered action
FindActionOrFirst(acts, name) ==
    IF \E i \in 1..Len(acts) : Definition(acts[i]).name = name
    THEN CHOOSE i \in 1..Len(acts) :
           /\ Definition(acts[i]).name = name
           /\ \A j \in 1..(i - 1) : Definition(acts[j]).name # name
    ELSE 1

\* a lookup that returns the latest registration of the name
FindActionLast(acts, name) ==
    IF \E i \in 1..Len(acts) : Definition(acts[i]).name = name
    THEN CHOOSE i \in 1..Len(acts) :
           /\ Definition(acts[i]).name = name
           /\ \A j \in (i + 1)..Len(acts) : Definition(acts[j]).name # name
    ELSE 0

\* actions.iter().find(|a| a.definition().name == name): index, 0 if none
FindAction(acts, name) ==
    IF \E i \in 1..Len(acts) : Definition(acts[i]).name = name
    THEN CHOOSE i \in 1..Len(acts) :
           /\ Definition(acts[i]).name = name
           /\ \A j \in 1..(i - 1) : Definition(acts[j]).name # name
    ELSE 0

\* a stage that answers with an empty text
NullAgentSilent(prompt, history_id) ==
    Ok([response |-> EmptyText, handle |-> None])

\* NullAgent::process_prompt: `Ok((prompt.to_string(), None))`
NullAgentProcessPrompt(prompt, history_id) ==
    Ok([response |-> prompt, handle |-> None])

\* NullAgent::add_action: the agent ignores the action
NullAgentAddAction(agent, action) == agent

\* NullAgent::default
NullAgentDefault == [actions |-> <<>>]

\* `inner_agent.process_prompt(&text_result, &history_id).await?` with a
\* NullAgent as inner agent: its response text, or its error
NullProcessPrompt(prompt) ==
    LET r == NullAgentProcessPrompt(prompt, "")
    IN  IF r.ok THEN Ok(r.val.response) ELSE r

\* the JSON object of one parameter: `json!({"type": .., "description": ..})`;
\* the key "items" is absent
PropertyOf(param) ==
    [type |-> param.param_type, description |-> param.description,
     items |-> None]

\* `.map(|param| (param.name, json!({..}))).collect::<serde_json::Map<..>>()`:
\* a map keyed by name, where a later pair replaces an earlier one
PropertiesOf(params) ==
    [n \in {params[i].name : i \in 1..Len(params)} |->
        LET last == CHOOSE i \in 1..Len(params) :
                      /\ params[i].name = n
                      /\ \A j \in (i + 1)..Len(params) : params[j].name # n
        IN  PropertyOf(params[last])]

\* `.filter(|p| p.required).map(|p| p.name.clone()).collect::<Vec<String>>()`
RequiredOf(params) ==
    LET req == SelectSeq(params, LAMBDA p : p.required)
    IN  [i \in 1..Len(req) |-> req[i].name]

\* the Tool of one action
ToolOf(definition) ==
    [tool_type |-> "function",
     function |->
        [name |-> definition.name, description |-> definition.description,
         parameters |->
            [type |-> "object",
             properties |-> PropertiesOf(definition.parameters),
             required |-> RequiredOf(definition.parameters),
             additionalProperties |-> FALSE]]]

\* "Convert actions to OpenAI tools"
ToolsOf(acts) == [i \in 1..Len(acts) |-> ToolOf(Definition(acts[i]))]

\* a client that sets the item type of every array property
NormalizePropertyOverwriting(value) ==
    IF value.type = "array"
    THEN [value EXCEPT !.items = Some([type |-> "string"])]
    ELSE value

\* the client's pass over one property: an array without "items" gets
\* `{"type": "string"}`
NormalizeProperty(value) ==
    IF value.type = "array" /\ value.items = None
    THEN [value EXCEPT !.items = Some([type |-> "string"])]
    ELSE value

\* "Process array parameters in tools"
NormalizeTools(tools) ==
    [i \in 1..Len(tools) |->
        [tools[i] EXCEPT !.function.parameters.properties =
            [n \in DOMAIN @ |-> NormalizeProperty(@[n])]]]

Active(m) == turn[m].pc \in {"request", "dispatch", "finish"}

\* the two std::sync::Mutex of the agent
Locks == {"conversation_history", "actions"}

\* no turn holds the guard of this mutex
LockFree(lock) == \A x \in Turns : lock \notin turn[x].locks

\* `.lock()`
Acquire(held, lock) == held \cup {lock}

\* a guard that outlives the block it was taken in
KeepPastBlock(held, lock) == held

\* the guard is a local of a `{ .. }` block (or is passed to drop): it is
\* released where the block ends, before the next await
ReleaseAtBlockEnd(held, lock) == held \ {lock}

\* the guards a turn holds after a section that locks these mutexes in turn
AfterSections(held, locks) ==
    IF "conversation_history" \in locks /\ "actions" \in locks
    THEN ReleaseAtBlockEnd(Acquire(
            ReleaseAtBlockEnd(Acquire(held, "conversation_history"),
                              "conversation_history"), "actions"), "actions")
    ELSE IF "conversation_history" \in locks
    THEN ReleaseAtBlockEnd(Acquire(held, "conversation_history"),
                           "conversation_history")
    ELSE IF "actions" \in locks
    THEN ReleaseAtBlockEnd(Acquire(held, "actions"), "actions")
    ELSE held

Event(op, id, name) == [op |-> op, id |-> id, name |-> name]

\* a start that writes the system seed into every history that has none
StartSharedSeed(m, h) ==
    /\ turn[m].pc = "idle"
    /\ h \in env.ids
    /\ env.turns > 0
    /\ Cardinality({x \in Turns : Active(x)}) < env.parallel
    /\ env' = [env EXCEPT !.turns = @ - 1]
    /\ LET conv == GetOrCreate(conversation_history, h)
       IN  /\ conversation_history' =
                 [k \in HistoryIds |-> GetOrCreate(conversation_history, k)]
           /\ turn' = [turn EXCEPT ![m] =
                [@ EXCEPT !.pc = "request", !.history_id = h,
                          !.prompt = PromptOf(m), !.base = conv,
                          !.conversation = Append(conv, UserMessage(PromptOf(m)))]]
    /\ UNCHANGED <<actions, state, callback_data, callback_lock, cb, visible,
                   confirm_runs, xin, xout>>

\* a start that drops the pending confirmations of earlier prompts
StartExpiring(m, h) ==
    /\ turn[m].pc = "idle"
    /\ h \in env.ids
    /\ env.turns > 0
    /\ Cardinality({x \in Turns : Active(x)}) < env.parallel
    /\ env' = [env EXCEPT !.turns = @ - 1]
    /\ callback_data' = [k \in Turns |-> None]
    /\ LET conv == GetOrCreate(conversation_history, h)
       IN  /\ conversation_history' = [conversation_history EXCEPT ![h] = conv]
           /\ turn' = [turn EXCEPT ![m] =
                [@ EXCEPT !.pc = "request", !.history_id = h,
                          !.prompt = PromptOf(m), !.base = conv,
                          !.conversation = Append(conv, UserMessage(PromptOf(m)))]]
    /\ UNCHANGED <<actions, state, callback_lock, cb, visible,
                   confirm_runs, xin, xout>>

\* message_handler up to the first request: "Thinking...", then send_prompt
\* loads or creates the history and appends the user's prompt
Start(m, h) ==
    /\ turn[m].pc = "idle"
    /\ h \in env.ids
    /\ env.turns > 0
    /\ Cardinality({x \in Turns : Active(x)}) < env.parallel
    /\ LockFree("conversation_history") /\ LockFree("actions")
    /\ env' = [env EXCEPT !.turns = @ - 1]
    /\ LET conv == GetOrCreate(conversation_history, h)
       IN  /\ conversation_history' = [conversation_history EXCEPT ![h] = conv]
           /\ turn' = [turn EXCEPT ![m] =
                [@ EXCEPT !.pc = "request", !.history_id = h,
                          !.locks = AfterSections(@, Locks),
                          !.tools = ToolsOf(actions),
                          !.prompt = PromptOf(m), !.base = conv,
                          !.conversation = Append(conv, UserMessage(PromptOf(m)))]]
    /\ UNCHANGED <<actions, state, callback_data, callback_lock, cb, visible,
                   confirm_runs, xin, xout>>

\* the request of one round trip, as the client transmits it
Transmit(t) ==
    [t EXCEPT !.sent = Some(RequestMessages(PromptArg(t.count, t.prompt),
                                            t.conversation)),
              !.prompt_args = Append(@, PromptArg(t.count, t.prompt)),
              !.requests = @ + 1,
              !.log = Append(@, Event("request", "", ""))]

\* a loop that stores what the turn has gathered when a request fails
RespondErrorSaving(m) ==
    /\ turn[m].pc = "request"
    /\ turn' = [turn EXCEPT ![m] =
         [Transmit(@) EXCEPT !.pc = "err", !.result = Some(Err(ErrTransport))]]
    /\ conversation_history' =
         [conversation_history EXCEPT ![turn[m].history_id] = turn[m].conversation]
    /\ UNCHANGED <<actions, state, callback_data,
                   callback_lock, cb, visible, confirm_runs, env, xin, xout>>

\* the endpoint (or the transport) fails: `.map_err(|e| e.to_string())?`
RespondError(m) ==
    /\ turn[m].pc = "request"
    /\ turn' = [turn EXCEPT ![m] =
         [Transmit(@) EXCEPT !.pc = "err", !.result = Some(Err(ErrTransport))]]
    /\ UNCHANGED <<conversation_history, actions, state, callback_data,
                   callback_lock, cb, visible, confirm_runs, env, xin, xout>>

\* a response without tool calls: `final_result = response.content; break`
RespondFinal(m, f) ==
    /\ turn[m].pc = "request"
    /\ turn' = [turn EXCEPT ![m] =
         [Transmit(@) EXCEPT !.pc = "finish", !.final_result = f,
                             !.log = Append(@, Event("final", "", ""))]]
    /\ UNCHANGED <<conversation_history, actions, state, callback_data,
                   callback_lock, cb, visible, confirm_runs, env, xin, xout>>

\* a loop that skips a batch it cannot read and asks the endpoint again
RespondGarbageSkipped(m) ==
    /\ turn[m].pc = "request"
    /\ turn' = [turn EXCEPT ![m] =
         [Transmit(@) EXCEPT
              !.log = Append(@, Event("bad_batch", "", "")),
              !.count = @ + 1,
              !.pc = IF LoopContinues(turn[m].count + 1) THEN "request"
                     ELSE "finish"]]
    /\ UNCHANGED <<conversation_history, actions, state, callback_data,
                   callback_lock, cb, visible, confirm_runs, env, xin, xout>>

\* a tool-call response whose content does not deserialise into tool calls:
\* `serde_json::from_str(&response.content).map_err(|e| e.to_string())?`
RespondGarbage(m) ==
    /\ turn[m].pc = "request"
    /\ turn' = [turn EXCEPT ![m] =
         [Transmit(@) EXCEPT !.pc = "err", !.result = Some(Err(ErrJson)),
                             !.log = Append(@, Event("bad_batch", "", ""))]]
    /\ UNCHANGED <<conversation_history, actions, state, callback_data,
                   callback_lock, cb, visible, confirm_runs, env, xin, xout>>

\* a tool-call batch: it is recorded as an assistant message and dispatched
RespondToolCalls(m, batch) ==
    /\ turn[m].pc = "request"
    /\ LockFree("actions")
    /\ turn' = [turn EXCEPT ![m] =
         [Transmit(@) EXCEPT !.pc = "dispatch", !.tool_calls = batch, !.idx = 1,
              !.locks = AfterSections(@, {"actions"}),
              !.conversation = Append(@, AssistantToolCalls(batch))]]
    /\ env' = [env EXCEPT
         !.calls = @ - Len(batch),
         !.special = @ - Cardinality({i \in 1..Len(batch) :
              <<batch[i].function.name, batch[i].function.arguments>>
                \in SpecialCalls})]
    /\ UNCHANGED <<conversation_history, actions, state, callback_data,
                   callback_lock, cb, visible, confirm_runs, xin, xout>>

\* the endpoint answers with one of the batches it can still issue
RespondBatch(m) ==
    \E batch \in Batches(env.calls, env.special) : RespondToolCalls(m, batch)

\* a loop that leaves the batch after its first call
AdvanceEarly(t) ==
    [t EXCEPT !.idx = 0, !.count = @ + 1,
              !.pc = IF LoopContinues(t.count + 1) THEN "request" ELSE "finish"]

\* after call idx of the batch: the next call, or `count += 1` and the loop test
Advance(t) ==
    IF t.idx < Len(t.tool_calls)
    THEN [t EXCEPT !.idx = @ + 1]
    ELSE [t EXCEPT !.idx = 0, !.count = @ + 1,
                   !.pc = IF LoopContinues(t.count + 1) THEN "request"
                          ELSE "finish"]

\* a handle left by every successful execute, preview or not
PendingHandleAlways(prev, action, result) ==
    Some([value |-> result,
          handler |-> IF action.confirm_handler # None
                      THEN action.confirm_handler[1] ELSE "none"])

\* the handle a successful execute leaves for the caller of the turn
PendingHandle(prev, action, result) ==
    IF action.confirm_handler # None
    THEN Some([value |-> result, handler |-> action.confirm_handler[1]])
    ELSE prev

\* `.map_err(|e| format!("Failed to execute {}: {}", name, e))`
ExecuteError(name, e) == Err(<<"Failed to execute ", name, ": ">> \o e)

\* a loop that catches the error of an execute and reports it to the model
\* as the call's tool message
AfterExecuteCaught(t, action, r) ==
    LET call == t.tool_calls[t.idx]
    IN  IF r.res.ok
        THEN Advance([t EXCEPT
               !.confirm_handler = PendingHandle(@, action, r.res.val),
               !.conversation = Append(@, ToolResult(call.id, r.res.val))])
        ELSE Advance([t EXCEPT
               !.conversation = Append(@, ToolResult(call.id, r.res.val))])

\* the turn after `action.execute(..).await` returned r for the current call:
\* an error ends the turn, a result is appended as a tool message
AfterExecute(t, action, r) ==
    LET call == t.tool_calls[t.idx]
    IN  IF r.res.ok
        THEN Advance([t EXCEPT
               !.confirm_handler = PendingHandle(@, action, r.res.val),
               !.conversation = Append(@, ToolResult(call.id, r.res.val))])
        ELSE [t EXCEPT !.pc = "err",
                       !.result = Some(ExecuteError(call.function.name, r.res.val))]

\* what the run has observed of the current call
Logged(t, r) ==
    LET call == t.tool_calls[t.idx]
        l1 == IF r.invoked
              THEN Append(t.log, Event("invoke", call.id, call.function.name))
              ELSE t.log
    IN  [t EXCEPT !.log =
           IF r.res.ok THEN l1
           ELSE Append(l1, Event("exec_err", call.id, call.function.name))]

\* one iteration of `for tool_call in tool_calls`
Dispatch(m) ==
    /\ turn[m].pc = "dispatch"
    /\ LET t == turn[m]
           call == t.tool_calls[t.idx]
           name == call.function.name
           i == FindAction(actions, name)
       IN  IF i = 0
           THEN /\ turn' = [turn EXCEPT ![m] =
                     Advance([t EXCEPT !.log = Append(@, Event("skip", call.id, name))])]
                /\ state' = state
           ELSE IF ~JsonParses(call.function.arguments)
           THEN /\ turn' = [turn EXCEPT ![m] =
                     [t EXCEPT !.pc = "err", !.result = Some(Err(ErrJson))]]
                /\ state' = state
           ELSE LET r == Execute(actions[i], JsonValue(call.function.arguments), state)
                IN  /\ state' = r.st
                    /\ turn' = [turn EXCEPT ![m] =
                         AfterExecute(Logged(t, r), actions[i], r)]
    /\ UNCHANGED <<conversation_history, actions, callback_data, callback_lock,
                   cb, visible, confirm_runs, env, xin, xout>>

\* the messages of seq after its first n
DropFirst(seq, n) == [i \in 1..(Len(seq) - n) |-> seq[i + n]]

\* a write-back that appends the turn's new messages to what is stored now
FinishMerging(m) ==
    /\ turn[m].pc = "finish"
    /\ LET t == turn[m]
           conv == Append(t.conversation, AssistantText(t.final_result))
       IN  /\ conversation_history' =
                 [conversation_history EXCEPT ![t.history_id] =
                     @ \o DropFirst(conv, Len(t.base))]
           /\ turn' = [turn EXCEPT ![m] =
                 IF RoundLimitHit(t.count)
                 THEN [t EXCEPT !.conversation = conv, !.pc = "err",
                                !.result = Some(Err(ErrRoundLimit))]
                 ELSE [t EXCEPT !.conversation = conv, !.pc = "ok",
                                !.log = Append(@, Event("inner", "", "")),
                                !.result = Some(NullProcessPrompt(t.final_result))]]
    /\ UNCHANGED <<actions, state, callback_data, callback_lock, cb, visible,
                   confirm_runs, env, xin, xout>>

\* after the loop: the final assistant message is appended, the history is
\* stored, and the turn returns (through the inner agent when it is Ok)
Finish(m) ==
    /\ turn[m].pc = "finish"
    /\ LockFree("conversation_history")
    /\ LET t == turn[m]
           conv == Append(t.conversation, AssistantText(t.final_result))
       IN  /\ conversation_history' =
                 [conversation_history EXCEPT ![t.history_id] = conv]
           /\ turn' = [turn EXCEPT ![m] =
                 IF RoundLimitHit(t.count)
                 THEN [t EXCEPT !.conversation = conv, !.pc = "err",
                                !.locks = AfterSections(@, {"conversation_history"}),
                                !.result = Some(Err(ErrRoundLimit))]
                 ELSE [t EXCEPT !.conversation = conv, !.pc = "ok",
                                !.locks = AfterSections(@, {"conversation_history"}),
                                !.log = Append(@, Event("inner", "", "")),
                                !.result = Some(NullProcessPrompt(t.final_result))]]
    /\ UNCHANGED <<actions, state, callback_data, callback_lock, cb, visible,
                   confirm_runs, env, xin, xout>>

(***************************************************************************)
(* Ferrox::start: the rest of message_handler, and callback_handler        *)
(***************************************************************************)
\* the uuid generated for the button of message m
TokenOf(m) == m

\* callback_data.remove(&data): the entry, if any
TakeEntry(store, token) == store[token]

\* a lookup that leaves the entry in the map
KeepEntry(store, token) == store

\* callback_data.remove(&data): the map afterwards
RemoveEntry(store, token) == [store EXCEPT ![token] = None]

\* `bot.edit_message_text(..).reply_markup(keyboard).await?`: the response is
\* shown with a Confirm button; when the request fails, the handler returns
\* and the chat may or may not show the button
Present(m, sent_ok, shown) ==
    /\ turn[m].pc = "ok"
    /\ turn[m].confirm_handler # None
    /\ sent_ok => shown
    /\ visible' = IF shown THEN visible \cup {TokenOf(m)} ELSE visible
    /\ turn' = [turn EXCEPT ![m].pc = IF sent_ok THEN "put" ELSE "failed"]
    /\ UNCHANGED <<conversation_history, actions, state, callback_data,
                   callback_lock, cb, confirm_runs, env, xin, xout>>

\* `callback_data.lock().await.insert(uuid, (value, confirm_handler))`
Put(m) ==
    /\ turn[m].pc = "put"
    /\ callback_lock = 0
    /\ callback_data' =
         [callback_data EXCEPT ![TokenOf(m)] = turn[m].confirm_handler]
    /\ turn' = [turn EXCEPT ![m].pc = "done"]
    /\ UNCHANGED <<conversation_history, actions, state, callback_lock, cb,
                   visible, confirm_runs, env, xin, xout>>

\* a press of a visible Confirm button arrives and the handler takes the
\* entry: `if let Some(..) = callback_data.lock().await.remove(&data)`.  The
\* guard is a temporary of the scrutinee: it lives to the end of the if-let
\* (editions up to 2021) or is dropped before the body (edition 2024).
CbTake(c, token, held) ==
    /\ cb[c].pc = "idle"
    /\ token \in visible
    /\ callback_lock = 0
    /\ LET entry == TakeEntry(callback_data, token)
       IN  /\ callback_data' = RemoveEntry(callback_data, token)
           /\ cb' = [cb EXCEPT ![c] =
                [@ EXCEPT !.data = token, !.entry = entry,
                          !.pc = IF entry # None THEN "run" ELSE "done"]]
           /\ callback_lock' = IF entry # None /\ held THEN c ELSE 0
    /\ UNCHANGED <<conversation_history, actions, state, turn, visible,
                   confirm_runs, env, xin, xout>>

\* a callback handler that puts the entry back when the confirm handler fails
CbRunRestoring(c, handler_ok) ==
    /\ cb[c].pc = "run"
    /\ confirm_runs' = [confirm_runs EXCEPT ![cb[c].data] = @ + 1]
    /\ cb' = [cb EXCEPT ![c] =
         [@ EXCEPT !.pc = "done",
                   !.result = Some(IF handler_ok THEN Ok(cb[c].entry[1].value)
                                   ELSE Err(ErrHandler))]]
    /\ callback_data' = IF handler_ok THEN callback_data
                        ELSE [callback_data EXCEPT ![cb[c].data] = cb[c].entry]
    /\ callback_lock' = IF callback_lock = c THEN 0 ELSE callback_lock
    /\ UNCHANGED <<conversation_history, actions, state, turn,
                   visible, env, xin, xout>>

\* `handler(value, agent.state()).await`, the message edit, the end of the if-let
CbRun(c, handler_ok) ==
    /\ cb[c].pc = "run"
    /\ confirm_runs' = [confirm_runs EXCEPT ![cb[c].data] = @ + 1]
    /\ cb' = [cb EXCEPT ![c] =
         [@ EXCEPT !.pc = "done",
                   !.result = Some(IF handler_ok THEN Ok(cb[c].entry[1].value)
                                   ELSE Err(ErrHandler))]]
    /\ callback_lock' = IF callback_lock = c THEN 0 ELSE callback_lock
    /\ UNCHANGED <<conversation_history, actions, state, callback_data, turn,
                   visible, env, xin, xout>>

NextLoop ==
    \/ \E m \in Turns, h \in HistoryIds : Start(m, h)
    \/ \E m \in Turns : RespondError(m)
    \/ \E m \in Turns, f \in Finals : RespondFinal(m, f)
    \/ \E m \in Turns : RespondGarbage(m)
    \/ \E m \in Turns : RespondBatch(m)
    \/ \E m \in Turns : Dispatch(m)
    \/ \E m \in Turns : Finish(m)

SpecLoop == InitLoop /\ [][NextLoop]_vars

SpecShared == InitShared /\ [][NextLoop]_vars

\* every endpoint request and every handler call returns: a step of the turn
\* that can be taken is taken
SpecLoopFair == InitLoopFair /\ [][NextLoop]_vars /\ WF_vars(NextLoop)

Next ==
    \/ NextLoop
    \/ \E m \in Turns, ok \in BOOLEAN, shown \in BOOLEAN : Present(m, ok, shown)
    \/ \E m \in Turns : Put(m)
    \/ \E c \in Clicks, t \in Turns, held \in BOOLEAN : CbTake(c, t, held)
    \/ \E c \in Clicks, ok \in BOOLEAN : CbRun(c, ok)

Spec == Init /\ [][Next]_vars

(***************************************************************************)
(* A stand-alone call of FunctionAction::execute, as the unit tests make   *)
(***************************************************************************)
ExecTexts == {TxtHi, TxtQuote, TxtBoom}

\* every JSON object over the field names with these texts as values
JsonObjects == UNION { [D -> ExecTexts] : D \in SUBSET FieldNames }

ExecInputs ==
    [kind : {"execute"}, crate : {"ferrox", "ferrox-actions"},
     action : {EchoAction, TransferAction}, params : JsonObjects,
     send_state : {"string", "null", "object"}, st : {0, 1}]

InitExecute ==
    /\ InitAgent
    /\ conversation_history = [h \in HistoryIds |-> <<>>]
    /\ env = [calls |-> 0, special |-> 0, turns |-> 0, parallel |-> 0, ids |-> {}]
    /\ xin \in ExecInputs
    /\ state = xin.st
    /\ xout = None

\* action.execute(params, state) of crates/ferrox
ApplyExecute ==
    /\ xin.kind = "execute" /\ xin.crate = "ferrox" /\ xout = None
    /\ LET r == Execute(xin.action, xin.params, state)
       IN  xout' = Some(r) /\ state' = r.st
    /\ UNCHANGED <<conversation_history, actions, callback_data, callback_lock,
                   turn, cb, visible, confirm_runs, env, xin>>

\* action.execute(params, send_state, state) of crates/ferrox-actions
ApplyExecuteWithSendState ==
    /\ xin.kind = "execute" /\ xin.crate = "ferrox-actions" /\ xout = None
    /\ LET r == ExecuteWithSendState(xin.action, xin.params, xin.send_state, state)
       IN  xout' = Some(r) /\ state' = r.st
    /\ UNCHANGED <<conversation_history, actions, callback_data, callback_lock,
                   turn, cb, visible, confirm_runs, env, xin>>

NextExecute == ApplyExecute \/ ApplyExecuteWithSendState

SpecExecute == InitExecute /\ [][NextExecute]_vars

(***************************************************************************)
(* A stand-alone use of the ActionBuilder, as the unit tests make          *)
(***************************************************************************)
\* the description(d) and parameter(n, d, t, r) calls a registration makes
BuilderCalls ==
    {[op |-> "description", n |-> "", d |-> x, t |-> "", r |-> FALSE] :
        x \in {"Get the weather for a location", "Weather"}}
    \cup
    {[op |-> "parameter", n |-> x[1], d |-> "The " \o x[1], t |-> x[2], r |-> x[3]] :
        x \in {<<"location", "string", TRUE>>, <<"location", "string", FALSE>>,
               <<"units", "string", FALSE>>, <<"days", "number", TRUE>>}}

BuildInputs ==
    [kind : {"build"},
     calls : UNION {[1..n -> BuilderCalls] : n \in 0..MaxBuilderCalls}]

\* the builder after the first n calls of the registration
RECURSIVE BuilderAfter(_, _)
BuilderAfter(calls, n) ==
    IF n = 0 THEN BuilderNew("get_weather", "echo", "EchoParams", "String", None)
    ELSE LET b == BuilderAfter(calls, n - 1)
             c == calls[n]
         IN  IF c.op = "description" THEN BuilderDescription(b, c.d)
             ELSE BuilderParameter(b, c.n, c.d, c.t, c.r)

InitBuilder ==
    /\ InitAgent
    /\ conversation_history = [h \in HistoryIds |-> <<>>]
    /\ env = [calls |-> 0, special |-> 0, turns |-> 0, parallel |-> 0, ids |-> {}]
    /\ xin \in BuildInputs
    /\ state = 0
    /\ xout = None

\* ActionBuilder::new(..).description(..).parameter(..).build()
ApplyBuild ==
    /\ xin.kind = "build" /\ xout = None
    /\ xout' = Some([action |-> Build(BuilderAfter(xin.calls, Len(xin.calls))),
                     seen |-> <<>>, executed |-> FALSE])
    /\ UNCHANGED <<conversation_history, actions, state, callback_data,
                   callback_lock, turn, cb, visible, confirm_runs, env, xin>>

\* action.definition()
CallDefinition ==
    /\ xin.kind = "build" /\ xout # None
    /\ Len(xout[1].seen) < MaxDefinitionCalls
    /\ xout' = Some([xout[1] EXCEPT !.seen = Append(@, Definition(xout[1].action))])
    /\ UNCHANGED <<conversation_history, actions, state, callback_data,
                   callback_lock, turn, cb, visible, confirm_runs, env, xin>>

\* action.execute(params, send_state, state) on the built action
CallExecuteBuilt(params) ==
    /\ xin.kind = "build" /\ xout # None
    /\ ~xout[1].executed
    /\ LET r == ExecuteWithSendState(xout[1].action, params, "string", state)
       IN  /\ state' = r.st
           /\ xout' = Some([xout[1] EXCEPT !.executed = TRUE])
    /\ UNCHANGED <<conversation_history, actions, callback_data,
                   callback_lock, turn, cb, visible, confirm_runs, env, xin>>

NextBuilder ==
    \/ ApplyBuild
    \/ CallDefinition
    \/ \E params \in {("text" :> TxtHi), ("wrong_field" :> TxtHi)} :
         CallExecuteBuilt(params)

SpecBuilder == InitBuilder /\ [][NextBuilder]_vars

(***************************************************************************)
(* A NullAgent used on its own, next to a TextAgent that chains into one   *)
(***************************************************************************)
NullInputs ==
    [kind : {"null"}, add_first : BOOLEAN,
     prompt : {EmptyText, TxtHi, TxtQuote}, history_id : HistoryIds]

InitNull ==
    /\ InitAgent
    /\ conversation_history = [h \in HistoryIds |-> <<>>]
    /\ env = [calls |-> FrontCalls, special |-> FrontCalls, turns |-> 1,
              parallel |-> 1, ids |-> {"conv1"}]
    /\ xin \in NullInputs
    /\ state = 0
    /\ xout = Some([agent |-> NullAgentDefault, added |-> FALSE, result |-> None])

\* agent.add_action(Arc::new(action))
NullAddActionCall ==
    /\ xin.kind = "null" /\ xin.add_first /\ ~xout[1].added
    /\ xout' = Some([xout[1] EXCEPT
                       !.agent = NullAgentAddAction(@, EchoAction),
                       !.added = TRUE])
    /\ UNCHANGED <<conversation_history, actions, state, callback_data,
                   callback_lock, turn, cb, visible, confirm_runs, env, xin>>

\* agent.process_prompt(prompt, history_id, ..)
NullProcessPromptCall ==
    /\ xin.kind = "null" /\ xout[1].result = None
    /\ xin.add_first => xout[1].added
    /\ xout' = Some([xout[1] EXCEPT !.result =
                       Some(NullAgentProcessPrompt(xin.prompt, xin.history_id))])
    /\ UNCHANGED <<conversation_history, actions, state, callback_data,
                   callback_lock, turn, cb, visible, confirm_runs, env, xin>>

NextNull == NextLoop \/ NullAddActionCall \/ NullProcessPromptCall

SpecNull == InitNull /\ [][NextNull]_vars

(***************************************************************************)
(* The translation of one definition into the tool the endpoint receives   *)
(***************************************************************************)
SchemaParameters ==
    {ActionParameter(x[1], "The " \o x[1], x[2], x[3]) :
        x \in {"tags", "limit"} \X {"array", "string"} \X BOOLEAN}

\* a definition, and the item type a caller of the client that brings its
\* own tools has declared for its array properties
SchemaInputs ==
    [kind : {"schema"},
     parameters : UNION {[1..n -> SchemaParameters] : n \in 0..MaxParameters},
     own_items : {[type |-> "number"]}]

SchemaAction(params) ==
    [definition |-> [name |-> "search", description |-> "Search",
                     parameters |-> params],
     handler |-> "echo", ptype |-> "EchoParams", vtype |-> "String",
     confirm_handler |-> None]

\* the tools of a caller that declares the item type of its arrays itself
OwnTools(tools, item) ==
    [i \in 1..Len(tools) |->
        [tools[i] EXCEPT !.function.parameters.properties =
            [n \in DOMAIN @ |->
                IF @[n].type = "array" THEN [@[n] EXCEPT !.items = Some(item)]
                ELSE @[n]]]]

InitSchema ==
    /\ InitAgent
    /\ conversation_history = [h \in HistoryIds |-> <<>>]
    /\ env = [calls |-> 0, special |-> 0, turns |-> 0, parallel |-> 0, ids |-> {}]
    /\ xin \in SchemaInputs
    /\ state = 0
    /\ xout = None

\* send_prompt converts the registered action
ConvertTools ==
    /\ xin.kind = "schema" /\ xout = None
    /\ xout' = Some([tools |-> ToolsOf(<<SchemaAction(xin.parameters)>>),
                     sent |-> None, resent |-> None, own |-> None])
    /\ UNCHANGED <<conversation_history, actions, state, callback_data,
                   callback_lock, turn, cb, visible, confirm_runs, env, xin>>

\* the client receives the converted tools and transmits them
ClientSend ==
    /\ xin.kind = "schema" /\ xout # None /\ xout[1].sent = None
    /\ xout' = Some([xout[1] EXCEPT !.sent = Some(NormalizeTools(xout[1].tools))])
    /\ UNCHANGED <<conversation_history, actions, state, callback_data,
                   callback_lock, turn, cb, visible, confirm_runs, env, xin>>

\* the client receives tools that have been through it before
ClientSendAgain ==
    /\ xin.kind = "schema" /\ xout # None
    /\ xout[1].sent # None /\ xout[1].resent = None
    /\ xout' = Some([xout[1] EXCEPT !.resent = Some(NormalizeTools(xout[1].sent[1]))])
    /\ UNCHANGED <<conversation_history, actions, state, callback_data,
                   callback_lock, turn, cb, visible, confirm_runs, env, xin>>

\* the client receives tools whose arrays declare their items
ClientSendOwn ==
    /\ xin.kind = "schema" /\ xout # None /\ xout[1].own = None
    /\ xout' = Some([xout[1] EXCEPT !.own =
           Some(NormalizeTools(OwnTools(xout[1].tools, xin.own_items)))])
    /\ UNCHANGED <<conversation_history, actions, state, callback_data,
                   callback_lock, turn, cb, visible, confirm_runs, env, xin>>

NextSchema == ConvertTools \/ ClientSend \/ ClientSendAgain \/ ClientSendOwn

SpecSchema == InitSchema /\ [][NextSchema]_vars

(***************************************************************************)
(* Registration with add_action, then one turn                             *)
(***************************************************************************)
\* a second action registered under the name "echo"
EchoTwin ==
    Build(BuilderParameter(
            BuilderDescription(
              BuilderNew("echo", "preview_transfer", "TransferParams",
                         "Unit", None),
              "Echo an amount"),
            "amount", "Amount to echo", "string", TRUE))

RegisterInputs ==
    [kind : {"register"},
     to_add : UNION {[1..n -> {EchoAction, EchoTwin, TransferAction}] :
                        n \in 0..MaxActions}]

\* TextAgent::add_action: `self.actions.lock().unwrap().push(action)`
AddAction(acts, action) == Append(acts, action)

InitRegister ==
    /\ actions = <<>>
    /\ callback_data = [t \in Turns |-> None]
    /\ callback_lock = 0
    /\ turn = [m \in Turns |-> IdleTurn]
    /\ cb = [c \in Clicks |-> IdleClick]
    /\ visible = {}
    /\ confirm_runs = [t \in Turns |-> 0]
    /\ conversation_history = [h \in HistoryIds |-> <<>>]
    /\ env = [calls |-> RegisterCalls, special |-> 1, turns |-> 1,
              parallel |-> 1, ids |-> {"conv1"}]
    /\ xin \in RegisterInputs
    /\ state = 0
    /\ xout = Some([added |-> 0])

\* agent.add_action(..) for the next action of the application's list; it
\* takes `&mut self`, so it happens before the agent is shared with a turn
CallAddAction ==
    /\ xin.kind = "register"
    /\ xout[1].added < Len(xin.to_add)
    /\ \A m \in Turns : turn[m].pc = "idle"
    /\ actions' = AddAction(actions, xin.to_add[xout[1].added + 1])
    /\ xout' = Some([added |-> xout[1].added + 1])
    /\ UNCHANGED <<conversation_history, state, callback_data,
                   callback_lock, turn, cb, visible, confirm_runs, env, xin>>

NextRegister == CallAddAction \/ NextLoop

SpecRegister == InitRegister /\ [][NextRegister]_vars

(***************************************************************************)
(* Properties                                                              *)
(***************************************************************************)
Terminated(m) == turn[m].pc \in {"ok", "err", "put", "failed", "done"}

\* every request of the turn was answered with a tool-call batch that was
\* dispatched to its end
OnlyToolBatches(m) == turn[m].requests > 0 /\ turn[m].requests = turn[m].count

\* the endpoint answered a request of the turn without tool calls
HasFinal(m) ==
    \E k \in 1..Len(turn[m].log) : turn[m].log[k].op = "final"

\* C1: a turn whose every round trip is answered with a tool-call batch (all
\* executes succeeding) ends with the round-limit error, never with Ok.
C1_RoundCapEnforced ==
    \A m \in Turns :
        (Terminated(m) /\ OnlyToolBatches(m)) =>
            turn[m].result = Some(Err(ErrRoundLimit))

\* C2: a response without tool calls, on whichever round trip of the turn it
\* arrives, makes the turn return Ok with that response's content.
C2_FinalAnswerReturned ==
    \A m \in Turns :
        (Terminated(m) /\ HasFinal(m)) =>
            turn[m].result = Some(Ok(turn[m].final_result))

(***************************************************************************)
(* The transcript shape the completion endpoint expects                    *)
(***************************************************************************)
\* the tool messages that directly follow position i of msgs
RECURSIVE ToolRun(_, _)
ToolRun(msgs, i) ==
    IF i + 1 <= Len(msgs) /\ msgs[i + 1].role = "tool"
    THEN <<msgs[i + 1]>> \o ToolRun(msgs, i + 1)
    ELSE <<>>

\* every assistant-tool-calls message is directly followed by exactly one
\* tool message per call of its batch, in order, tagged with the call's id
WellFormedTranscript(msgs) ==
    \A i \in 1..Len(msgs) :
        IsToolCalls(msgs[i]) =>
            LET batch == msgs[i].tool_calls[1]
                run == ToolRun(msgs, i)
            IN  /\ Len(run) = Len(batch)
                /\ \A k \in 1..Len(batch) : run[k].tool_call_id = <<batch[k].id>>

\* C3: in every stored history and in every message list sent to the
\* endpoint, each assistant-tool-calls message is followed, before the next
\* assistant message, by exactly one tool-result message per call of its
\* batch, in the batch's order and tagged with the call's id.
C3_TranscriptShape ==
    /\ \A h \in HistoryIds : WellFormedTranscript(conversation_history[h])
    /\ \A m \in Turns :
         turn[m].sent # None => WellFormedTranscript(turn[m].sent[1])

\* C5: after a turn ended with an error, of whatever kind, the stored history
\* of its id is what it was before the turn's rounds (the stored history, or
\* the system seed of a new id): nothing of the failed turn is written.
C5_ErrorLeavesHistory ==
    \A m \in Turns :
        turn[m].pc = "err" =>
            conversation_history[turn[m].history_id] = turn[m].base

(***************************************************************************)
(* Confirmation events                                                     *)
(***************************************************************************)
\* the confirmation events that carried token k and found its entry
Takers(k) == {c \in Clicks : cb[c].data = k /\ cb[c].entry # None}

\* C4: whatever the interleaving of the confirmation events that carry one
\* token, its confirm handler runs at most once: only one event gets the
\* entry, every other event of the token finds none and invokes nothing.
C4_AtMostOnceConfirmation ==
    \A k \in Turns :
        /\ confirm_runs[k] <= 1
        /\ Cardinality(Takers(k)) <= 1
        /\ \A c \in Clicks :
             (cb[c].data = k /\ cb[c].entry = None) =>
                 cb[c].pc = "done" /\ cb[c].result = None

\* two events of one token have ended: one got the entry and ran the handler,
\* the other found nothing, and the handler ran once
C4_Witness ==
    \E k \in Turns : \E c1, c2 \in Clicks :
        /\ c1 # c2
        /\ cb[c1].data = k /\ cb[c2].data = k
        /\ cb[c1].entry # None /\ cb[c1].pc = "done"
        /\ cb[c2].entry = None /\ cb[c2].pc = "done"
        /\ confirm_runs[k] = 1

(***************************************************************************)
(* FunctionAction::execute                                                 *)
(***************************************************************************)
\* the parameter names the action's definition declares required
DeclaredRequired(a) ==
    {Definition(a).parameters[i].name : i \in
        {j \in 1..Len(Definition(a).parameters) :
            Definition(a).parameters[j].required}}

LacksRequired(a, params) ==
    \E n \in DeclaredRequired(a) : n \notin DOMAIN params

C8_ResultUnchanged ==
    (/\ xout # None
     /\ FromValueOk(xin.action.ptype, xin.params)
     /\ HandlerRun(xin.action.handler, xin.params, xin.st).res.ok) =>
        xout[1].res = HandlerRun(xin.action.handler, xin.params, xin.st).res

(***************************************************************************)
(* The dispatch of a batch                                                 *)
(***************************************************************************)
\* the text the registered action named by the call returns for its arguments
ReturnedText(call) ==
    LET args == JsonValue(call.function.arguments)
    IN  CASE call.function.name = "echo" -> args["text"]
          [] call.function.name = "transfer" -> args["amount"]

\* system, user, assistant-tool-calls, one tool message per call, assistant
ExpectedFirstTurn(t) ==
    <<[role |-> "system", content |-> <<TxtSystem>>, tool_calls |-> <<>>,
       tool_call_id |-> <<>>],
      [role |-> "user", content |-> <<t.prompt>>, tool_calls |-> <<>>,
       tool_call_id |-> <<>>],
      [role |-> "assistant", content |-> <<>>, tool_calls |-> <<t.tool_calls>>,
       tool_call_id |-> <<>>]>>
    \o [k \in 1..Len(t.tool_calls) |->
          [role |-> "tool", content |-> <<ReturnedText(t.tool_calls[k])>>,
           tool_calls |-> <<>>, tool_call_id |-> <<t.tool_calls[k].id>>]]
    \o <<[role |-> "assistant", content |-> <<t.final_result>>,
          tool_calls |-> <<>>, tool_call_id |-> <<>>]>>

\* a finished first turn on a new history id: one batch of calls to
\* registered actions, then the final answer
FirstTurnOneBatch(m) ==
    /\ turn[m].pc = "ok"
    /\ turn[m].base = <<SystemMessage(TxtSystem)>>
    /\ turn[m].requests = 2
    /\ turn[m].count = 1
    /\ \A k \in 1..Len(turn[m].log) : turn[m].log[k].op # "skip"

\* C7: after a first turn on a new history id with one batch of calls to
\* registered actions and then the final answer f, the stored history is
\* exactly system, user(prompt), assistant-tool-calls, one tool-result per
\* call in order, assistant-text(f), and the turn returns f.
C7_OneBatchHistory ==
    \A m \in Turns :
        FirstTurnOneBatch(m) =>
            /\ conversation_history[turn[m].history_id] = ExpectedFirstTurn(turn[m])
            /\ turn[m].result = Some(Ok(turn[m].final_result))

\* such a turn with a batch of two calls
C7_Witness ==
    \E m \in Turns :
        /\ FirstTurnOneBatch(m)
        /\ Len(turn[m].tool_calls) = 2
        /\ Len(conversation_history[turn[m].history_id]) = 6

\* no registered action has this name
Unregistered(name) ==
    \A i \in 1..Len(actions) : actions[i].definition.name # name

\* the step of turn m for a call that names an unregistered action
SkipStep(m) ==
    /\ turn[m].pc = "dispatch"
    /\ Unregistered(turn[m].tool_calls[turn[m].idx].function.name)
    /\ turn'[m] # turn[m]

\* C9: a tool call that names an unregistered action does not fail the loop:
\* no handler runs for it, no tool-result message is appended for it, the
\* next call of the batch is dispatched, and after the last call the loop
\* goes on to its next round trip.
C9_UnregisteredSkipped ==
    [][\A m \in Turns :
         SkipStep(m) =>
            /\ turn'[m].pc # "err" /\ turn'[m].result = None
            /\ turn'[m].conversation = turn[m].conversation
            /\ state' = state
            /\ turn'[m].log = Append(turn[m].log,
                 [op |-> "skip", id |-> turn[m].tool_calls[turn[m].idx].id,
                  name |-> turn[m].tool_calls[turn[m].idx].function.name])
            /\ IF turn[m].idx < Len(turn[m].tool_calls)
               THEN turn'[m].pc = "dispatch" /\ turn'[m].idx = turn[m].idx + 1
               ELSE /\ turn'[m].count = turn[m].count + 1
                    /\ turn'[m].pc = IF turn[m].count < LoopCap THEN "request"
                                     ELSE "finish"]_vars

\* an unregistered call was skipped, a later call of the batch ran its
\* handler, and the next request was sent
C9_Witness ==
    \E m \in Turns : \E i, j, k \in 1..Len(turn[m].log) :
        /\ i < j /\ j < k
        /\ turn[m].log[i].op = "skip"
        /\ turn[m].log[j].op = "invoke"
        /\ turn[m].log[k].op = "request"

\* C10: a failed execute ends the turn: nothing is dispatched or requested
\* after it, no tool-result message is produced for the failed call, and the
\* turn's error is "Failed to execute <name>: ..." with the action's name.
C10_HandlerErrorFatal ==
    \A m \in Turns : \A k \in 1..Len(turn[m].log) :
        turn[m].log[k].op = "exec_err" =>
            LET t == turn[m]
                last == t.conversation[Len(t.conversation)]
            IN  /\ k = Len(t.log)
                /\ t.pc = "err"
                /\ t.result # None /\ ~t.result[1].ok
                /\ t.result[1].val[1] = "Failed to execute "
                /\ t.result[1].val[2] = t.log[k].name
                /\ t.tool_calls[t.idx].id = t.log[k].id
                /\ ~(last.role = "tool" /\ last.tool_call_id = <<t.log[k].id>>)

\* the first call of a batch of two failed: the second one was never run
C10_Witness ==
    \E m \in Turns :
        /\ turn[m].pc = "err"
        /\ turn[m].log[Len(turn[m].log)].op = "exec_err"
        /\ turn[m].idx = 1
        /\ Len(turn[m].tool_calls) = 2
        /\ turn[m].tool_calls[2].function.name = "echo"

(***************************************************************************)
(* Concurrent turns                                                        *)
(***************************************************************************)
ReturnedOk(m) == turn[m].result # None /\ turn[m].result[1].ok

Holds(msgs, msg) == \E i \in 1..Len(msgs) : msgs[i] = msg

\* both turns ran on one history id, each from the same snapshot of it
Overlapped(m1, m2) ==
    /\ m1 # m2
    /\ ReturnedOk(m1) /\ ReturnedOk(m2)
    /\ turn[m1].history_id = turn[m2].history_id
    /\ turn[m1].base = turn[m2].base

\* C11: two turns on one history id that snapshot the stored history before
\* either writes back both return Ok, and the stored history is then the
\* whole local copy of one of them: it holds the user and assistant messages
\* of only one of the two turns.
C11_LostUpdate ==
    \A m1, m2 \in Turns :
        Overlapped(m1, m2) =>
            LET stored == conversation_history[turn[m1].history_id]
            IN  /\ stored \in {turn[m1].conversation, turn[m2].conversation}
                /\ ~(/\ Holds(stored, UserMessage(turn[m1].prompt))
                     /\ Holds(stored, UserMessage(turn[m2].prompt)))

\* both turns returned Ok and the prompt of the first is not in the history
C11_Witness ==
    \E m1, m2 \in Turns :
        /\ Overlapped(m1, m2)
        /\ LET stored == conversation_history[turn[m1].history_id]
           IN  /\ ~Holds(stored, UserMessage(turn[m1].prompt))
               /\ Holds(stored, UserMessage(turn[m2].prompt))
               /\ stored[Len(stored)] = AssistantText(turn[m2].final_result)

\* the user prompts that turns on other history ids than h can have stored
ForeignPrompts(h) ==
    {UserMessage(turn[m].prompt) :
        m \in {x \in Turns : turn[x].pc # "idle" /\ turn[x].history_id # h}}

\* C12: a step of a turn on one history id changes the stored history of no
\* other id, and a stored history holds the system seed first and no message
\* of a turn on another id, whatever the interleaving of the turns.
C12_ConversationIsolation ==
    /\ [](\A h \in HistoryIds :
            conversation_history[h] # <<>> =>
               /\ conversation_history[h][1] = SystemMessage(TxtSystem)
               /\ \A i \in 1..Len(conversation_history[h]) :
                    conversation_history[h][i] \notin ForeignPrompts(h))
    /\ [][\A h \in HistoryIds :
            conversation_history'[h] # conversation_history[h] =>
               \E m \in Turns : turn'[m] # turn[m] /\ turn'[m].history_id = h]_vars

\* a turn on conv1 has written back while a turn on conv2 is in progress: the
\* history of conv1 has its own prompt second, that of conv2 is its seed
C12_Witness ==
    \E m1, m2 \in Turns :
        /\ turn[m1].history_id = "conv1" /\ turn[m2].history_id = "conv2"
        /\ turn[m1].pc = "ok" /\ Active(m2)
        /\ conversation_history["conv1"][2] = UserMessage(turn[m1].prompt)
        /\ conversation_history["conv2"] = <<SystemMessage(TxtSystem)>>
        /\ turn[m2].conversation[2] = UserMessage(turn[m2].prompt)

(***************************************************************************)
(* The two-phase result                                                    *)
(***************************************************************************)
\* the registered action of this name has a confirm handler
HasConfirm(name) ==
    \E i \in 1..Len(actions) :
        actions[i].definition.name = name /\ actions[i].confirm_handler # None

\* the turn ran the execute handler of an action that has a confirm handler
RanPreview(m) ==
    \E k \in 1..Len(turn[m].log) :
        turn[m].log[k].op = "invoke" /\ HasConfirm(turn[m].log[k].name)

\* the calls of the turn's batches that name an action with a confirm handler
PreviewCallsOf(m) ==
    {turn[m].conversation[i].tool_calls[1][j] :
        <<i, j>> \in {x \in (1..Len(turn[m].conversation)) \X (1..Len(CallIds)) :
            /\ IsToolCalls(turn[m].conversation[x[1]])
            /\ x[2] <= Len(turn[m].conversation[x[1]].tool_calls[1])
            /\ HasConfirm(turn[m].conversation[x[1]].tool_calls[1][x[2]].function.name)}}

C14_UnboundedRetention ==
    [][/\ \A k \in Turns :
            (callback_data[k] # None /\ callback_data'[k] # callback_data[k]) =>
                /\ callback_data'[k] = None
                /\ \E c \in Clicks :
                     /\ cb[c].pc = "idle"
                     /\ cb'[c].data = k
                     /\ cb'[c].entry = callback_data[k]
       /\ cb' # cb => conversation_history' = conversation_history]_vars

\* the preview of one prompt is still in the store, unconfirmed, after a
\* later prompt on the same history id was answered; the history holds the
\* preview's tool-result and ends with the later answer
C14_Witness ==
    \E m1, m2 \in Turns :
        /\ m1 # m2
        /\ callback_data[TokenOf(m1)] # None
        /\ confirm_runs[TokenOf(m1)] = 0
        /\ turn[m2].pc = "ok"
        /\ Holds(turn[m2].base, UserMessage(turn[m1].prompt))
        /\ LET stored == conversation_history[turn[m2].history_id]
           IN  /\ \E i \in 1..Len(stored) :
                    stored[i].role = "tool"
                    /\ stored[i].content = Some(callback_data[TokenOf(m1)][1].value)
               /\ stored[Len(stored)] = AssistantText(turn[m2].final_result)

(***************************************************************************)
(* The order of the invocations of a turn                                  *)
(***************************************************************************)
\* the position of the last assistant-tool-calls message of msgs, 0 if none
LastBatchPos(msgs) ==
    IF \E i \in 1..Len(msgs) : IsToolCalls(msgs[i])
    THEN CHOOSE i \in 1..Len(msgs) :
           /\ IsToolCalls(msgs[i])
           /\ \A j \in (i + 1)..Len(msgs) : ~IsToolCalls(msgs[j])
    ELSE 0

\* the ids of the registered calls among the first n calls of batch, in order
RECURSIVE RegisteredIds(_, _)
RegisteredIds(batch, n) ==
    IF n = 0 THEN <<>>
    ELSE IF Unregistered(batch[n].function.name)
         THEN RegisteredIds(batch, n - 1)
         ELSE Append(RegisteredIds(batch, n - 1), <<batch[n].id>>)

\* the ids that tag the tool messages after the last batch of msgs
TrailIds(msgs) ==
    LET run == ToolRun(msgs, LastBatchPos(msgs))
    IN  [k \in 1..Len(run) |-> run[k].tool_call_id]

\* the ids of the calls the turn has looked at since its last request
RECURSIVE SinceRequest(_)
SinceRequest(log) ==
    IF log = <<>> \/ log[Len(log)].op = "request" THEN <<>>
    ELSE LET e == log[Len(log)]
             before == SinceRequest(SubSeq(log, 1, Len(log) - 1))
         IN  IF e.op \in {"invoke", "skip"} THEN Append(before, e.id) ELSE before

\* C15: the calls of a batch are executed one after the other in the order
\* of the batch: when call i is about to be dispatched, exactly the calls
\* before it have been executed and have their tool-results appended; the
\* request of the next round is sent with the tool-results of all of them.
C15_SequentialDispatch ==
    \A m \in Turns :
        LET t == turn[m]
        IN  /\ t.pc = "dispatch" =>
                 /\ SinceRequest(t.log) = SubSeq(CallIds, 1, t.idx - 1)
                 /\ TrailIds(t.conversation) = RegisteredIds(t.tool_calls, t.idx - 1)
            /\ (t.pc = "request" /\ t.count > 0) =>
                 /\ SinceRequest(t.log) = SubSeq(CallIds, 1, Len(t.tool_calls))
                 /\ TrailIds(t.conversation) =
                        RegisteredIds(t.tool_calls, Len(t.tool_calls))
            /\ (t.sent # None /\ LastBatchPos(t.sent[1]) > 0) =>
                 LET req == t.sent[1]
                     batch == req[LastBatchPos(req)].tool_calls[1]
                 IN  TrailIds(req) = RegisteredIds(batch, Len(batch))

\* the second call of a batch is about to run, the first one's tool-result is
\* the last message; and in an earlier round a batch of two was completed
C15_Witness ==
    \E m \in Turns :
        /\ turn[m].pc = "dispatch" /\ turn[m].idx = 2
        /\ turn[m].count > 0
        /\ TrailIds(turn[m].conversation) = <<(<<CallIds[1]>>)>>
        /\ Len(TrailIds(turn[m].sent[1])) = 2

(***************************************************************************)
(* The bound of a turn                                                     *)
(***************************************************************************)
\* C16: when every request and every handler call returns, a started turn
\* ends (Ok or error); no turn sends more than 6 requests (the counter starts
\* at 0 and the loop runs while it is <= 5); and a turn whose first five
\* responses were tool-call batches sends a sixth request.
C16_BoundedTurn ==
    /\ [](\A m \in Turns :
            /\ turn[m].requests <= LoopCap + 1
            /\ turn[m].count = LoopCap =>
                 \/ turn[m].pc = "request" /\ turn[m].requests = LoopCap
                 \/ turn[m].requests = LoopCap + 1)
    /\ \A m \in Turns : (turn[m].pc # "idle") ~> Terminated(m)

\* a turn has ended after its sixth request
C16_Witness ==
    \E m \in Turns :
        /\ Terminated(m)
        /\ turn[m].requests = LoopCap + 1
        /\ turn[m].count >= LoopCap

(***************************************************************************)
(* The continuity of a stored history                                      *)
(***************************************************************************)
IsExtension(after, before) ==
    /\ Len(after) >= Len(before)
    /\ SubSeq(after, 1, Len(before)) = before

Roles(msgs) == [i \in 1..Len(msgs) |-> msgs[i].role]

\* what a successful turn added: user(prompt), then assistant-tool-calls and
\* tool messages only, then assistant-text(final)
TurnSuffix(added, prompt, final) ==
    /\ Len(added) >= 2
    /\ added[1] = UserMessage(prompt)
    /\ added[Len(added)] = AssistantText(final)
    /\ \A i \in 2..(Len(added) - 1) :
         IsToolCalls(added[i]) \/ added[i].role = "tool"

\* C17: a history is created by its first prompt with exactly the system
\* message; after a successful turn that ran alone on its id the stored log
\* is the log before it followed by user(prompt), the turn's tool messages
\* and assistant-text(final); a stored log starts with the one system
\* message it has and is never shortened or deleted.
C17_HistoryContinuity ==
    /\ [](\A h \in HistoryIds :
            LET stored == conversation_history[h]
            IN  stored # <<>> =>
                  /\ stored[1] = SystemMessage(TxtSystem)
                  /\ \A i \in 2..Len(stored) : stored[i].role # "system")
    /\ [](\A m \in Turns :
            turn[m].pc = "ok" =>
               LET stored == conversation_history[turn[m].history_id]
               IN  /\ IsExtension(stored, turn[m].base)
                   /\ TurnSuffix(DropFirst(stored, Len(turn[m].base)),
                                 turn[m].prompt, turn[m].final_result))
    /\ [][\A h \in HistoryIds :
            /\ IsExtension(conversation_history'[h], conversation_history[h])
            /\ (conversation_history[h] = <<>> /\ conversation_history'[h] # <<>>)
                  => conversation_history'[h] = <<SystemMessage(TxtSystem)>>]_vars

\* the second of two plain turns on one id has returned Ok: the log is
\* system, user, assistant, user, assistant
C17_Witness ==
    \E m \in Turns :
        /\ turn[m].pc = "ok"
        /\ turn[m].base = PriorHistory
        /\ Roles(conversation_history[turn[m].history_id]) =
              <<"system", "user", "assistant", "user", "assistant">>
        /\ conversation_history[turn[m].history_id][4] = UserMessage(turn[m].prompt)

(***************************************************************************)
(* The shared AgentState                                                   *)
(***************************************************************************)
\* the executions of the counting handler (echo) that turn m has completed
Completed(m) ==
    Cardinality({k \in 1..Len(turn[m].log) :
        /\ turn[m].log[k].op = "invoke"
        /\ turn[m].log[k].name = "echo"
        /\ ~(k < Len(turn[m].log) /\ turn[m].log[k + 1].op = "exec_err")})

RECURSIVE TotalCompleted(_)
TotalCompleted(ms) ==
    IF ms = {} THEN 0
    ELSE LET m == CHOOSE x \in ms : TRUE
         IN  Completed(m) + TotalCompleted(ms \ {m})

\* C18: all turns, on whatever history ids and however interleaved, work on
\* one AgentState: the counter that the handler increments once per
\* execution equals the number of its completed executions over all turns.
C18_SharedState == state = TotalCompleted(Turns)

\* two turns in progress at once on different ids have each completed one
\* execution, and the counter is 2
C18_Witness ==
    /\ Active("m1") /\ Active("m2")
    /\ turn["m1"].history_id # turn["m2"].history_id
    /\ Completed("m1") = 1 /\ Completed("m2") = 1
    /\ state = 2

(***************************************************************************)
(* The definition of a built action                                        *)
(***************************************************************************)
IsParameterCall(c) == c.op = "parameter"
IsDescriptionCall(c) == c.op = "description"

\* the parameters the registration declared, in declaration order
DeclaredParameters(calls) ==
    LET ps == SelectSeq(calls, IsParameterCall)
    IN  [i \in 1..Len(ps) |->
           [name |-> ps[i].n, description |-> ps[i].d, param_type |-> ps[i].t,
            required |-> ps[i].r]]

\* the last description the registration gave, empty if it gave none
LastDescription(calls) ==
    LET ds == SelectSeq(calls, IsDescriptionCall)
    IN  IF ds = <<>> THEN "" ELSE ds[Len(ds)].d

\* C19: after new(name, ..), any description(d) and parameter(n, d, t, r)
\* calls and build(), definition() returns the name, the last description
\* given (empty if none) and exactly the declared parameters, in declaration
\* order, each with its type tag and required flag; a definition() or
\* execute call does not change what a later definition() returns.
C19_DefinitionAsDeclared ==
    (xin.kind = "build" /\ xout # None) =>
        \A k \in 1..Len(xout[1].seen) :
            xout[1].seen[k] =
                [name |-> "get_weather",
                 description |-> LastDescription(xin.calls),
                 parameters |-> DeclaredParameters(xin.calls)]

\* two different parameters were declared around a description, and
\* definition() was called before and after an execute
C19_Witness ==
    /\ xin.kind = "build" /\ xout # None
    /\ Len(xin.calls) = 3
    /\ xin.calls[1].op = "parameter" /\ xin.calls[3].op = "parameter"
    /\ xin.calls[2].op = "description"
    /\ xin.calls[1].n # xin.calls[3].n
    /\ xin.calls[1].r # xin.calls[3].r
    /\ Len(xout[1].seen) = 2
    /\ xout[1].executed /\ state = 1

(***************************************************************************)
(* The NullAgent                                                           *)
(***************************************************************************)
\* the calls of the inner agent that turn m has made
InnerCalls(m) ==
    {k \in 1..Len(turn[m].log) : turn[m].log[k].op = "inner"}

\* C20: NullAgent.process_prompt returns Ok with the prompt unchanged and no
\* confirmation handle, for every prompt (the empty one too) and history id;
\* add_action leaves the agent as it was; a TextAgent over a NullAgent
\* returns the final text of its own loop, and does not call the inner agent
\* when its loop fails.
C20_NullAgentIdentity ==
    /\ xout[1].agent = [actions |-> <<>>]
    /\ xout[1].result # None =>
         xout[1].result[1] =
             [ok |-> TRUE, val |-> [response |-> xin.prompt, handle |-> <<>>]]
    /\ \A m \in Turns :
         /\ turn[m].pc = "ok" =>
              /\ turn[m].result = <<[ok |-> TRUE, val |-> turn[m].final_result]>>
              /\ InnerCalls(m) = {Len(turn[m].log)}
         /\ turn[m].pc # "ok" => InnerCalls(m) = {}

\* after add_action the NullAgent was given the empty prompt, and a turn of
\* the TextAgent has returned Ok
C20_Witness ==
    /\ xout[1].added
    /\ xin.prompt = EmptyText
    /\ xout[1].result # None
    /\ \E m \in Turns : turn[m].pc = "ok" /\ turn[m].final_result = TxtFinal

(***************************************************************************)
(* The locks of the agent                                                  *)
(***************************************************************************)
\* the turn is waiting for the completion endpoint or for an action handler
Waiting(m) == turn[m].pc \in {"request", "dispatch"}

\* C21: a turn that is waiting for the completion endpoint or for a handler
\* holds neither the conversation-map lock nor the action-list lock, so that
\* while it waits a turn on another history id can start (snapshot) and can
\* write its history back.
C21_LocksNotHeldWhileWaiting ==
    \A m \in Turns :
        Waiting(m) =>
            /\ turn[m].locks = {}
            /\ \A m2 \in Turns \ {m} : \A h \in HistoryIds \ {turn[m].history_id} :
                 /\ (turn[m2].pc = "idle" /\ env.turns > 0) => ENABLED Start(m2, h)
                 /\ (turn[m2].pc = "finish" /\ turn[m2].history_id = h) =>
                       ENABLED Finish(m2)

\* one turn waits for a handler while a turn on another id, which has sent a
\* request of its own, is about to write back
C21_Witness ==
    \E m1, m2 \in Turns :
        /\ turn[m1].pc = "dispatch"
        /\ turn[m2].pc = "finish"
        /\ turn[m1].history_id # turn[m2].history_id
        /\ ENABLED Finish(m2)

\* the assistant messages with tool calls among msgs
BatchMessages(msgs) == {i \in 1..Len(msgs) : IsToolCalls(msgs[i])}

\* C22: a tool-call response that cannot be deserialised ends the turn at
\* once: it is the last thing the turn observes (no action invoked, no
\* further request), no assistant message with tool calls is appended for
\* it, and the turn returns an error.
C22_BadBatchAborts ==
    \A m \in Turns : \A k \in 1..Len(turn[m].log) :
        turn[m].log[k].op = "bad_batch" =>
            /\ k = Len(turn[m].log)
            /\ turn[m].pc = "err"
            /\ turn[m].result # None /\ ~turn[m].result[1].ok
            /\ Cardinality(BatchMessages(turn[m].conversation))
                 = Cardinality(BatchMessages(turn[m].base)) + turn[m].count

C22_Witness ==
    \E m \in Turns :
        /\ turn[m].count >= 1
        /\ state >= 1
        /\ Len(turn[m].log) > 0
        /\ turn[m].log[Len(turn[m].log)].op = "bad_batch"
        /\ turn[m].pc = "err"

\* C23: the prompt is passed as the separate prompt argument on the first
\* round trip of a turn and on no later one; a later request carries the
\* accumulated conversation and nothing else.
C23_PromptArgFirstOnly ==
    \A m \in Turns :
        /\ Len(turn[m].prompt_args) = turn[m].requests
        /\ \A k \in 1..Len(turn[m].prompt_args) :
             turn[m].prompt_args[k] =
                 IF k = 1 THEN Some(turn[m].prompt) ELSE None
        /\ (turn[m].requests >= 2 /\ turn[m].sent # None) =>
             IsExtension(turn[m].conversation, turn[m].sent[1])

C23_Witness ==
    \E m \in Turns :
        /\ Len(turn[m].prompt_args) >= 3
        /\ turn[m].prompt_args[1] # None
        /\ turn[m].prompt_args[3] = None
\* the object schema of the translated definition, once it is converted
Converted == xin.kind = "schema" /\ xout # None

SchemaOf(tools) == tools[1].function.parameters

\* the array properties have the item type `item`, the others have none
ItemsAre(props, before, item) ==
    \A n \in DOMAIN props :
        props[n] = IF before[n].type = "array"
                   THEN [before[n] EXCEPT !.items = Some(item)]
                   ELSE before[n]

\* what the translation does to the required list and to the item types
SchemaRest ==
    LET params == xin.parameters
        schema == SchemaOf(xout[1].tools)
        flagged == {i \in 1..Len(params) : params[i].required}
    IN  /\ schema.type = "object"
        /\ Len(schema.required) = Cardinality(flagged)
        /\ \A k \in 1..Len(schema.required) :
             \E i \in flagged :
                 /\ schema.required[k] = params[i].name
                 /\ Cardinality({j \in flagged : j < i}) = k - 1
        /\ xout[1].sent # None =>
             /\ DOMAIN SchemaOf(xout[1].sent[1]).properties = DOMAIN schema.properties
             /\ ItemsAre(SchemaOf(xout[1].sent[1]).properties,
                         schema.properties, [type |-> "string"])
        /\ xout[1].own # None =>
             ItemsAre(SchemaOf(xout[1].own[1]).properties,
                      schema.properties, xin.own_items)
        /\ xout[1].resent # None => xout[1].resent = xout[1].sent

\* C24 as stated: the translated tool has type object, one property per
\* declared parameter, keyed by its name and carrying its type tag and
\* description, and the required list names the parameters flagged required,
\* in declaration order; an array property without items gets
\* items {type: string}, one with items is left as it is, and normalising
\* twice equals normalising once.
C24_OnePropertyPerParameter ==
    Converted =>
        LET params == xin.parameters
            schema == SchemaOf(xout[1].tools)
        IN  /\ Cardinality(DOMAIN schema.properties) = Len(params)
            /\ \A i \in 1..Len(params) :
                 /\ params[i].name \in DOMAIN schema.properties
                 /\ schema.properties[params[i].name].type = params[i].param_type
                 /\ schema.properties[params[i].name].description
                      = params[i].description
            /\ SchemaRest

\* C24 (amended): the translated tool has type object and one property per
\* declared parameter name, carrying the type tag and description of the last
\* parameter declared under that name; the required list names the
\* parameters flagged required, in declaration order; an array property
\* without items gets items {type: string}, one with items is left as it is,
\* and normalising twice equals normalising once.
C24_OnePropertyPerName ==
    Converted =>
        LET params == xin.parameters
            schema == SchemaOf(xout[1].tools)
        IN  /\ DOMAIN schema.properties = {params[i].name : i \in 1..Len(params)}
            /\ \A i \in 1..Len(params) :
                 (\A j \in (i + 1)..Len(params) : params[j].name # params[i].name)
                 => /\ schema.properties[params[i].name].type = params[i].param_type
                    /\ schema.properties[params[i].name].description
                         = params[i].description
                    /\ schema.properties[params[i].name].items = None
            /\ SchemaRest

C24_Witness ==
    /\ Converted
    /\ Len(xin.parameters) = 2
    /\ xin.parameters[1].name = xin.parameters[2].name
    /\ xin.parameters[1].param_type = "string"
    /\ xin.parameters[2].param_type = "array"
    /\ xin.parameters[1].required /\ xin.parameters[2].required
    /\ xout[1].sent # None /\ xout[1].resent # None /\ xout[1].own # None
\* the registrations of `name`, by position
RegisteredAs(name) ==
    {i \in 1..Len(actions) : Definition(actions[i]).name = name}

\* the call a turn in its dispatch loop is about to handle
CurrentCall(m) == turn[m].tool_calls[turn[m].idx]

\* the step of turn m from its dispatch loop handled the current call with
\* the action `a`
HandledBy(m, a) ==
    LET call == CurrentCall(m)
        r == Execute(a, JsonValue(call.function.arguments), state)
    IN  /\ state' = r.st
        /\ IF r.res.ok
           THEN turn'[m].conversation =
                    Append(turn[m].conversation, ToolResult(call.id, r.res.val))
           ELSE /\ turn'[m].pc = "err"
                /\ turn'[m].result =
                     Some(ExecuteError(call.function.name, r.res.val))

\* C25: add_action appends whatever the names already registered; a turn
\* advertises every registered action, duplicates included, in registration
\* order; a tool call is handled by the earliest registration of its name.
C25_DuplicateNames ==
    [][/\ xout' # xout =>
            actions' = Append(actions, xin.to_add[xout[1].added + 1])
       /\ \A m \in Turns :
            /\ (turn[m].pc = "idle" /\ turn'[m].pc # "idle") =>
                 /\ Len(turn'[m].tools) = Len(actions)
                 /\ \A i \in 1..Len(actions) :
                      turn'[m].tools[i] = ToolOf(Definition(actions[i]))
            /\ (/\ turn[m].pc = "dispatch"
                /\ RegisteredAs(CurrentCall(m).function.name) # {}
                /\ JsonParses(CurrentCall(m).function.arguments)) =>
                 \E i \in RegisteredAs(CurrentCall(m).function.name) :
                     /\ \A j \in RegisteredAs(CurrentCall(m).function.name) : i <= j
                     /\ HandledBy(m, actions[i])]_vars

C25_Witness ==
    /\ xin.kind = "register"
    /\ actions = <<EchoTwin, EchoAction>>
    /\ \E m \in Turns :
         /\ turn[m].pc = "err"
         /\ turn[m].result = Some(ExecuteError("echo", ErrInvalidParameters))
         /\ Len(turn[m].tools) = 2
         /\ turn[m].tools[1].function.name = turn[m].tools[2].function.name
\* how often the turn's prompt occurs as a user message among the messages
\* of msgs behind the turn's starting history
PromptCopies(m, msgs) ==
    Cardinality({i \in (Len(turn[m].base) + 1)..Len(msgs) :
                    msgs[i] = UserMessage(turn[m].prompt)})

\* C26: the message list of the latest request is the turn's conversation as
\* it was when the request was made (so it is a prefix of the conversation
\* ever after), and the first request holds the new user prompt once.
C26_SentIsConversation ==
    \A m \in Turns :
        turn[m].sent # None =>
            /\ IsExtension(turn[m].conversation, turn[m].sent[1])
            /\ turn[m].requests = 1 => PromptCopies(m, turn[m].sent[1]) = 1
\* C27: while the Confirm button of a token is visible, the store holds the
\* token's entry unless a confirmation event has consumed it; so every
\* confirmation event finds the entry or follows one that did.
C27_ButtonHasEntry ==
    /\ \A k \in visible : callback_data[k] # None \/ Takers(k) # {}
    /\ \A c \in Clicks :
         (cb[c].pc # "idle" /\ cb[c].entry = None) => Takers(cb[c].data) # {}
\* C28: a confirmation event that finds the entry of its token consumes it,
\* whether the confirm handler then succeeds or fails: the token is absent
\* from the store from then on, no later event finds it, and the handler
\* runs once.
C28_ConsumedWhateverTheOutcome ==
    \A c \in Clicks :
        cb[c].entry # None =>
            /\ callback_data[cb[c].data] = None
            /\ Takers(cb[c].data) = {c}
            /\ confirm_runs[cb[c].data] = IF cb[c].pc = "done" THEN 1 ELSE 0

C28_Witness ==
    \E c, c2 \in Clicks :
        /\ c # c2
        /\ cb[c].pc = "done" /\ cb[c].entry # None
        /\ cb[c].result = Some(Err(ErrHandler))
        /\ cb[c2].pc = "done" /\ cb[c2].data = cb[c].data
        /\ cb[c2].entry = None
        /\ confirm_runs[cb[c].data] = 1
\* the assistant messages without tool calls that the stored history of
\* turn m's id holds behind the history the turn started from
StoredAnswers(m) ==
    LET stored == conversation_history[turn[m].history_id]
    IN  {i \in (Len(turn[m].base) + 1)..Len(stored) :
            IsAssistant(stored[i]) /\ ~IsToolCalls(stored[i])}

\* C29: an assistant-text message that a turn has stored carries the content
\* of a response without tool calls that the endpoint returned in that turn;
\* a turn without such a response stores none.
C29_StoredAnswerWasReturned ==
    \A m \in Turns :
        turn[m].pc \in {"ok", "err"} =>
            \A i \in StoredAnswers(m) :
                /\ HasFinal(m)
                /\ conversation_history[turn[m].history_id][i].content
                     = Some(turn[m].final_result)

\* the turn ended with a failed execute, an argument string or batch that
\* does not parse, or a failed request
FailedInLoop(m) ==
    /\ turn[m].pc = "err"
    /\ \/ turn[m].result \in {Some(Err(ErrJson)), Some(Err(ErrTransport))}
       \/ /\ Len(turn[m].log) > 0
          /\ turn[m].log[Len(turn[m].log)].op = "exec_err"

\* C30: when a turn fails in its loop after tool calls have completed, the
\* changes those calls made to the shared state remain, and the stored
\* history of the turn's id is what the turn started from (the earlier
\* history, or the seed for a new id).
C30_NoRollback ==
    \A m \in Turns :
        FailedInLoop(m) =>
            /\ state = Completed(m)
            /\ conversation_history[turn[m].history_id] = turn[m].base

C30_Witness ==
    \E m \in Turns :
        /\ FailedInLoop(m)
        /\ turn[m].result = Some(ExecuteError("echo", ErrHandler))
        /\ Completed(m) >= 2
        /\ state >= 2
        /\ turn[m].base = PriorHistory
        /\ Len(turn[m].conversation) > Len(turn[m].base) + 3
====
